---- MODULE Spec2Model ----
(***************************************************************************)
(* Model of the dispatch / aggregation core of resty-stress-tester:        *)
(*   internal/engine/engine.go  (StressEngine: Run, startWorkers,          *)
(*                               sendRequests, waitForCompletion, Stop)    *)
(*   internal/engine/worker.go  (Worker: Run, makeRequest, recordResult)   *)
(*   pkg/types/result.go        (StressResult: AddResult, CalculateMetrics)*)
(*                                                                         *)
(* Goroutines are processes with a program counter.  A Go select with      *)
(* several ready cases is a nondeterministic choice among them; its        *)
(* default case is enabled only when no other case is ready.               *)
(*                                                                         *)
(* Two specifications share the state and the engine's actions:            *)
(*   Spec      every handler is one action; a worker records an outcome    *)
(*             (AddResult) in one step.  Stop may be called at any moment. *)
(*   StepSpec  AddResult is split into its atomic operations and critical  *)
(*             sections, so that concurrent calls interleave.              *)
(* FairSpec is Spec with the scheduling fairness liveness needs.           *)
(***************************************************************************)
EXTENDS Integers, Sequences, FiniteSets, TLC

\* ---------------------------------------------------------------- bounds
MaxConcurrency == 2
MaxRequests == 3
MaxResults == 2
MaxRows == 2
\* The per-request timeout (client.SetTimeout), in clock ticks.
RequestTimeout == 1
MaxTotal == 20
MaxTextLen == 204
MaxTemplate == 2
MaxSample == 4

\* ------------------------------------------------------ program constants
\* time.Hour, the "unset" sentinel of MinResponseTime; durations are counted
\* in seconds.
Hour == 3600
CountBatchLimit == 100
QueueFactor == 2
SampleThreshold == 10000

StatusOK == 200
StatusServerError == 500
CtxCanceled == "context canceled"
TimeoutError == "timeout"

VARIABLES
  cfg,                \* e.config: TotalRequests, Concurrency, Duration
  runPc,              \* position of StressEngine.Run
  stopped,            \* e.stopped (int32, CAS 0 -> 1)
  stopPending,        \* a Stop call won the CAS and has not yet called cancel
  ctxDone,            \* e.ctx is cancelled
  chanLen,            \* number of signals buffered in the requests channel
  chanClosed,         \* the requests channel is closed
  distPc,             \* position of sendRequests
  distI,              \* loop variable i of the inner send loop
  remaining,          \* count mode: signals still to be sent
  timerFired,         \* duration mode: timer.C is ready
  wpc,                \* position of each worker goroutine
  wres,               \* the request / RequestResult each worker works on
  TotalRequests,
  SuccessfulRequests,
  FailedRequests,
  TotalResponseTime,
  MinResponseTime,
  MaxResponseTime,
  statusCodes,
  errorCounts,
  DetailedResults,
  resultIndex,
  maxResults,
  P50ResponseTime,
  P90ResponseTime,
  P99ResponseTime,
  csvRows,            \* csvParser.rowCount; 0 when no CSV file is configured
  requestID,          \* each worker's requestID counter
  now,                \* the wall clock, in ticks
  reqStart,           \* startTime of each worker's current makeRequest
  StartTime,          \* result.StartTime
  EndTime,            \* result.EndTime
  TotalDuration,      \* result.TotalDuration
  flags,              \* the command line given to main
  loaded,             \* what config.LoadFromFlags returned: [cfg, err]
  report,             \* counters of the result main got back from Run
  exitCode,           \* exit status of the process
  csvFile,            \* the file cfg.CSVFile names: [state, records]
  engineErr,          \* the error NewStressEngine returned to main
  recorded,           \* a recordResult call on its own: its input and result
  processed,          \* a template Process call on its own: input and result
  panicked,           \* the runtime panic that ended an AddResult call
  verbose,            \* e.config.Verbose
  monPc,              \* position of the monitorProgress goroutine
  \* history variables (not program state)
  emitted,            \* signals put on the channel
  dequeued,           \* signals taken from the channel
  sentAfterCancel,    \* a signal was put on the channel after cancellation
  abortedInFlight,    \* a request issued before Stop resolved with ctx's error
  returned,           \* [n, succ, fail, time] over the returned AddResult calls
  overlapSeen,        \* two AddResult calls have been in progress at once
  stopRepeated,       \* a Stop call found the stopped flag already set
  calculated          \* CalculateMetrics has run

engineVars == <<cfg, runPc, stopped, stopPending, ctxDone>>
chanVars == <<chanLen, chanClosed>>
distVars == <<distPc, distI, remaining, timerFired>>
workerVars == <<wpc, wres>>
counterVars == <<TotalRequests, SuccessfulRequests, FailedRequests,
                 TotalResponseTime>>
extremeVars == <<MinResponseTime, MaxResponseTime>>
tableVars == <<statusCodes, errorCounts>>
bufferVars == <<DetailedResults, resultIndex, maxResults>>
percentileVars == <<P50ResponseTime, P90ResponseTime, P99ResponseTime>>
resultVars == <<counterVars, extremeVars, tableVars, bufferVars, percentileVars>>
historyVars == <<emitted, dequeued, sentAfterCancel, abortedInFlight,
                 returned, overlapSeen, stopRepeated>>
csvVars == <<csvRows, requestID>>
mainVars == <<flags, loaded, report, exitCode>>
clockVars == <<now, reqStart>>
stampVars == <<StartTime, EndTime, TotalDuration>>
buildVars == <<csvFile, engineErr>>
unitVars == <<recorded, processed, calculated, panicked>>
monVars == <<verbose, monPc>>
envVars == <<csvVars, mainVars, clockVars, stampVars, buildVars, unitVars,
            monVars>>
vars == <<engineVars, chanVars, distVars, workerVars, resultVars, historyVars,
          envVars>>

\* Mutant of min: the larger of the two.
minTakesLarger(a, b) == IF a < b THEN b ELSE a

\* ------------------------------------------------------------- helpers
min(a, b) == IF a < b THEN a ELSE b

IsDurationBased(c) == c.Duration > 0

\* Mutant of QueueCap: one slot more than twice the concurrency.
QueueCapOneMore(c) == c.Concurrency * QueueFactor + 1

\* make(chan struct{}, e.config.Concurrency*2)
QueueCap(c) == c.Concurrency * QueueFactor

\* batchSize of the two branches of sendRequests
DurationBatchSize(c) == c.Concurrency
CountBatchSize(c) == min(CountBatchLimit, c.Concurrency)

Workers == 1..cfg.Concurrency

\* Configurations that pass Config.validate: positive concurrency and exactly
\* one of Duration / TotalRequests set.
Configs ==
  {[TotalRequests |-> n, Concurrency |-> c, Duration |-> 0] :
      n \in 1..MaxRequests, c \in 1..MaxConcurrency}
  \cup
  {[TotalRequests |-> 0, Concurrency |-> c, Duration |-> 1] :
      c \in 1..MaxConcurrency}

\* What the transport can answer to one request when nobody interferes:
\* a response (err = "") with a status code, or a transport error such as the
\* per-request timeout; dur is the elapsed time in seconds.
NaturalOutcomes ==
  {[err |-> "", status |-> StatusOK, dur |-> 1, size |-> 2],
   [err |-> "", status |-> StatusServerError, dur |-> 2, size |-> 1],
   [err |-> TimeoutError, status |-> 0, dur |-> 3, size |-> 0]}

\* The request carries w.ctx (SetContext): once the context is cancelled the
\* transport may return the context's error instead of the exchange's outcome.
CanceledOutcome == [err |-> CtxCanceled, status |-> 0, dur |-> 1, size |-> 0]

StatusCodes == {StatusOK, StatusServerError}
HTTPError(status) == IF status = StatusServerError THEN "HTTP 500" ELSE "HTTP 4xx"
ErrorTexts == {TimeoutError, CtxCanceled, HTTPError(StatusServerError)}

\* csvData of a request when no CSV file is configured (nil).
NoRow == -1

\* A worker that holds no request.
NoResult == [early |-> FALSE, row |-> NoRow]

\* A request on the wire, built from CSV row `row`; early (history) tells
\* that it was issued before Stop was called.
Request(early, row) == [early |-> early, row |-> row]

\* Mutant of GetRow: the index taken one too far.
GetRowOffByOne(index, rowCount) == (index + 1) % rowCount

\* Mutant of GetRow: past the last row the last row is given again.
GetRowClamped(index, rowCount) ==
  IF rowCount = 0 THEN NoRow
  ELSE IF index < rowCount THEN index ELSE rowCount - 1

\* CSVParser.GetRow: nil without data rows, else p.data[index % p.rowCount];
\* rows are named by position.
GetRow(index, rowCount) ==
  IF rowCount = 0 THEN NoRow ELSE index % rowCount

\* CSVParser.RowCount
RowCount(rowCount) == rowCount

\* ---------------------------------------------------- parser.NewCSVParser
\* cfg.CSVFile == "": no parameter file is configured.
NoCSVFile == [state |-> "none", records |-> 0]

\* A readable file with a header record and `rows` data records.
CSVFileOf(rows) == [state |-> "readable", records |-> rows + 1]

\* What cfg.CSVFile can name: nothing, a file that cannot be opened, one
\* that csv.ReadAll cannot read, or a readable file of 0..MaxRows+1 records
\* (0 records: an empty file; 1 record: a header and no data row).
CSVFiles ==
  {NoCSVFile,
   [state |-> "missing", records |-> 0],
   [state |-> "unreadable", records |-> 0]}
  \cup {[state |-> "readable", records |-> n] : n \in 0..MaxRows + 1}

\* A nil error.
NoError == ""

\* NewStressEngine has not been called yet.
Pending == "pending"

\* Mutant of NewCSVParser: an empty file is taken as a file without rows.
NewCSVParserAcceptsEmpty(file) ==
  IF file.state = "missing"
    THEN [err |-> "failed to open CSV file", rowCount |-> 0]
  ELSE IF file.state = "unreadable"
    THEN [err |-> "failed to read CSV file", rowCount |-> 0]
  ELSE [err |-> NoError,
        rowCount |-> IF file.records < 1 THEN 0 ELSE file.records - 1]

\* NewCSVParser(filename): os.Open, reader.ReadAll, len(records) < 1, then
\* the header is records[0] and the data are the records after it.
NewCSVParser(file) ==
  IF file.state = "missing"
    THEN [err |-> "failed to open CSV file", rowCount |-> 0]
  ELSE IF file.state = "unreadable"
    THEN [err |-> "failed to read CSV file", rowCount |-> 0]
  ELSE IF file.records < 1
    THEN [err |-> "CSV file is empty", rowCount |-> 0]
  ELSE [err |-> NoError, rowCount |-> file.records - 1]

\* Mutant of recordResult: a response counts as a success whatever its
\* status.
recordResultAnyStatus(o) ==
  IF o.err # ""
    THEN [seq |-> 0, Duration |-> o.dur, Success |-> FALSE,
          StatusCode |-> 0, ResponseSize |-> 0, Error |-> o.err]
    ELSE [seq |-> 0, Duration |-> o.dur, Success |-> TRUE,
          StatusCode |-> o.status, ResponseSize |-> o.size, Error |-> ""]

\* Worker.recordResult: classification of (resp, err) into a RequestResult.
\* seq is a history field, set to the arrival number when the result enters
\* the detail buffer.
recordResult(o) ==
  IF o.err # ""
    THEN [seq |-> 0, Duration |-> o.dur, Success |-> FALSE,
          StatusCode |-> 0, ResponseSize |-> 0, Error |-> o.err]
    ELSE IF o.status >= 400
      THEN [seq |-> 0, Duration |-> o.dur, Success |-> FALSE,
            StatusCode |-> o.status, ResponseSize |-> o.size,
            Error |-> HTTPError(o.status)]
      ELSE [seq |-> 0, Duration |-> o.dur, Success |-> TRUE,
            StatusCode |-> o.status, ResponseSize |-> o.size, Error |-> ""]

\* ------------------------------------------------- config.LoadFromFlags
\* A command-line option: not given, or given with value v.
NotGiven(zero) == [given |-> FALSE, v |-> zero]
Given(v) == [given |-> TRUE, v |-> v]
FlagValue(f, default) == IF f.given THEN f.v ELSE default

\* types.DefaultConfig (fields that validation looks at)
DefaultConfig ==
  [URL |-> "", Method |-> "GET", TotalRequests |-> 1000, Concurrency |-> 10,
   Duration |-> 0]

\* The nil *Config returned next to an error.
NoConfig ==
  [URL |-> "", Method |-> "", TotalRequests |-> 0, Concurrency |-> 0,
   Duration |-> 0]

\* strings.ToUpper on the method names that are drawn.
ToUpper(str) ==
  CASE str = "get" -> "GET"
    [] str = "patch" -> "PATCH"
    [] str = "trace" -> "TRACE"
    [] OTHER -> str

validMethods == {"GET", "POST", "PUT", "DELETE", "PATCH", "HEAD", "OPTIONS"}

\* Config.validate: the error message, "" for nil.
validate(c) ==
  IF c.URL = "" THEN "URL is required"
  ELSE IF c.Concurrency <= 0 THEN "concurrency must be positive"
  ELSE IF c.Duration = 0 /\ c.TotalRequests <= 0
    THEN "either duration or total requests must be specified"
  ELSE IF c.Duration > 0 /\ c.TotalRequests > 0
    THEN "cannot specify both duration and total requests"
  ELSE IF ToUpper(c.Method) \notin validMethods THEN "invalid HTTP method"
  ELSE ""

\* The configuration LoadFromFlags validates: the defaults overridden by the
\* options given (no config file).
FlagConfig(fl) ==
  [URL |-> FlagValue(fl.url, DefaultConfig.URL),
   Method |-> FlagValue(fl.method, DefaultConfig.Method),
   TotalRequests |-> FlagValue(fl.n, DefaultConfig.TotalRequests),
   Concurrency |-> FlagValue(fl.c, DefaultConfig.Concurrency),
   Duration |-> FlagValue(fl.d, DefaultConfig.Duration)]

LoadFromFlags(fl) ==
  LET c == FlagConfig(fl)
      err == validate(c)
  IN IF err # "" THEN [cfg |-> NoConfig, err |-> err]
                 ELSE [cfg |-> c, err |-> ""]

\* Command lines: each of -url, -method, -n, -c, -d absent or given.
FlagSets ==
  [url : {NotGiven(""), Given(""), Given("http://host/path")},
   method : {NotGiven(""), Given("GET"), Given("get"), Given("HEAD"),
             Given("TRACE"), Given("")},
   n : {NotGiven(0)} \cup {Given(v) : v \in -1..MaxRequests},
   c : {NotGiven(0)} \cup {Given(v) : v \in -1..MaxConcurrency},
   d : {NotGiven(0)} \cup {Given(v) : v \in -1..1}]

NoFlags ==
  [url |-> NotGiven(""), method |-> NotGiven(""), n |-> NotGiven(0),
   c |-> NotGiven(0), d |-> NotGiven(0)]

\* LoadFromFlags has not returned yet.
NotLoaded == [cfg |-> NoConfig, err |-> "pending"]

\* main: cfg, err := config.LoadFromFlags()
Load ==
  /\ loaded = NotLoaded
  /\ loaded' = LoadFromFlags(flags)
  /\ UNCHANGED <<engineVars, chanVars, distVars, workerVars, resultVars,
                 historyVars, csvVars, clockVars, stampVars, flags, report,
                 exitCode, buildVars, unitVars, monVars>>

\* ------------------------------------------------ StressResult.ShouldFail
\* Mutant of ShouldFail: the threshold itself already fails the run.
ShouldFailAtThreshold(r) ==
  IF r.TotalRequests = 0 THEN FALSE
  ELSE 10 * r.FailedRequests >= r.TotalRequests

\* failureRate := float64(FailedRequests) / float64(TotalRequests);
\* failureRate > 0.1.  For the counts drawn here the float64 quotient is on
\* the same side of 0.1 as the exact ratio, so the test is 10 * failed > total.
ShouldFail(r) ==
  IF r.TotalRequests = 0 THEN FALSE
  ELSE 10 * r.FailedRequests > r.TotalRequests

\* -------------------------------------------- StressResult.GetSuccessRate
\* Mutant of GetSuccessRate: the share of the failures.
GetSuccessRateOfFailures(succ, total) ==
  IF total = 0 THEN [num |-> 0, den |-> 1]
  ELSE [num |-> 100 * (total - succ), den |-> total]

\* if sr.TotalRequests == 0 { return 0 };
\* float64(sr.SuccessfulRequests) / float64(sr.TotalRequests) * 100.
\* The quotient is kept as the exact fraction num/den: float64 holds the
\* counts exactly, rounds the quotient by less than 1e-13 percent and gives
\* exactly 0 for no success and exactly 100 for succ = total.
GetSuccessRate(succ, total) ==
  IF total = 0 THEN [num |-> 0, den |-> 1]
  ELSE [num |-> 100 * succ, den |-> total]

\* Results a run can come back with: 0..MaxTotal requests, any of them failed.
Reports ==
  {r \in [TotalRequests : 0..MaxTotal, FailedRequests : 0..MaxTotal] :
     r.FailedRequests <= r.TotalRequests}

\* Run has not returned to main.
NoReport == [TotalRequests |-> 0, FailedRequests |-> 0]

\* The process is still running.
NotExited == -1

\* main: if result.ShouldFail() { os.Exit(1) }, else return (status 0).
Exit ==
  /\ exitCode = NotExited
  /\ exitCode' = IF ShouldFail(report) THEN 1 ELSE 0
  /\ UNCHANGED <<engineVars, chanVars, distVars, workerVars, resultVars,
                 historyVars, csvVars, clockVars, stampVars, flags, loaded,
                 report, buildVars, unitVars, monVars>>

\* ------------------------------------------- texts of recorded errors
\* Texts are modelled by their lengths.  The limit of sanitizeError, the
\* prefix it keeps before "...", and the limit put on a response body.
ErrorLimit == 200
KeptPrefix == 197
BodyLimit == 200
Ellipsis == 3

\* Worker.sanitizeError, on the length of err.Error().
sanitizeError(len) ==
  IF len > ErrorLimit THEN KeptPrefix + Ellipsis ELSE len

\* Lengths of "HTTP 500: " and of " - ".
HTTPPrefix == 10
Separator == 3

\* The text a response with status >= 400 is recorded with:
\* "HTTP %d: %s" of the status code and resp.Status(), followed, when the
\* response has a body, by " - " and the body cut after BodyLimit bytes
\* plus "...".
HTTPErrorLen(statusLen, bodyLen) ==
  IF bodyLen > 0
    THEN HTTPPrefix + statusLen + Separator
         + (IF bodyLen > BodyLimit THEN BodyLimit + Ellipsis ELSE bodyLen)
    ELSE HTTPPrefix + statusLen

\* Lengths resp.Status() can have: "200 OK", "500 Internal Server Error", and
\* a status line with a reason phrase as long as the server likes.
StatusTextLens(status) ==
  IF status = StatusOK THEN {6} ELSE {25, MaxTextLen}

\* What the transport hands to recordResult: an error whose message has
\* `text` characters, or a response with a status line and a body.
Responses ==
  {[kind |-> "error", status |-> 0, text |-> n, body |-> 0] :
      n \in 1..MaxTextLen}
  \cup UNION {{[kind |-> "response", status |-> c, text |-> t, body |-> b] :
                  t \in StatusTextLens(c), b \in 0..MaxTextLen} :
                c \in StatusCodes}

NoResponse == [kind |-> "none", status |-> 0, text |-> 0, body |-> 0]

\* Length of result.Error as recordResult sets it.
ErrorLen(resp) ==
  IF resp.kind = "error" THEN sanitizeError(resp.text)
  ELSE IF resp.status >= 400 THEN HTTPErrorLen(resp.text, resp.body)
  ELSE 0

\* No recordResult call has been made.
NotRecorded == [resp |-> NoResponse, ErrorLen |-> 0]

\* recordResult(resp, err, ...) on its own, for any transport answer.
RecordCall ==
  /\ recorded = NotRecorded
  /\ \E r \in Responses : recorded' = [resp |-> r, ErrorLen |-> ErrorLen(r)]
  /\ UNCHANGED <<engineVars, chanVars, distVars, workerVars, resultVars,
                 historyVars, csvVars, mainVars, clockVars, stampVars,
                 buildVars, processed, calculated, panicked, monVars>>

\* ------------------------------------------------ parser.TemplateParser
\* A text is a sequence of tokens: a piece of literal text or a placeholder
\* "{{key}}".  The columns of the CSV file are a and b.
Keys == {"a", "b"}
Placeholder(key) == IF key = "a" THEN "{{a}}" ELSE "{{b}}"
Tokens == {"t", "{{a}}", "{{b}}", "{{c}}"}

\* Templates of 1..MaxTemplate tokens.
Templates == UNION {[1..n -> Tokens] : n \in 1..MaxTemplate}

\* Values of a CSV cell: literal text, or text that reads like a placeholder.
Values == {<<"x">>, <<"y">>, <<"{{b}}">>}

\* csvData: nil (GetRow without data, or no CSV file), or a row.
NoData == [present |-> FALSE, row |-> [k \in Keys |-> <<>>]]
Rows == {NoData} \cup {[present |-> TRUE, row |-> r] : r \in [Keys -> Values]}

\* The orders in which `for key, value := range data` can visit the keys.
Orders == {<<"a", "b">>, <<"b", "a">>}

\* strings.ReplaceAll(text, placeholder, value)
RECURSIVE ReplaceAll(_, _, _)
ReplaceAll(text, placeholder, value) ==
  IF text = <<>> THEN <<>>
  ELSE (IF Head(text) = placeholder THEN value ELSE <<Head(text)>>)
       \o ReplaceAll(Tail(text), placeholder, value)

\* The loop of Process over the keys still to visit.
RECURSIVE ProcessKeys(_, _, _)
ProcessKeys(text, row, order) ==
  IF order = <<>> THEN text
  ELSE ProcessKeys(ReplaceAll(text, Placeholder(Head(order)), row[Head(order)]),
                   row, Tail(order))

\* TemplateParser.Process: the template itself for nil data, else one
\* ReplaceAll per key of the row, in the order the map iteration takes.
Process(template, data, order) ==
  IF ~data.present THEN template
  ELSE ProcessKeys(template, data.row, order)

\* ProcessURL
ProcessURL(urlTemplate, data, order) == Process(urlTemplate, data, order)

\* ProcessHeaders for one header: the name is kept, the value processed;
\* nil data returns the headers as they are.
ProcessHeaders(headers, data, order) ==
  IF ~data.present THEN headers
  ELSE [name |-> headers.name, value |-> Process(headers.value, data, order)]

\* ProcessJSON: Process, then the text is parsed as JSON when it is JSON;
\* the text that is parsed or returned is what Process gave.
ProcessJSON(template, data, order) == Process(template, data, order)

\* No Process call has been made.
NotProcessed ==
  [template |-> <<>>, data |-> NoData, url |-> <<>>,
   headers |-> [name |-> "", value |-> <<>>], body |-> <<>>]

\* The template step of makeRequest on its own: the same text given as
\* URL, as the value of header X-Name and as body, each Process call with
\* its own map iteration.
ProcessCall ==
  /\ processed = NotProcessed
  /\ \E t \in Templates, d \in Rows, o1 \in Orders, o2 \in Orders,
        o3 \in Orders :
       processed' =
         [template |-> t, data |-> d,
          url |-> ProcessURL(t, d, o1),
          headers |-> ProcessHeaders([name |-> "X-Name", value |-> t], d, o2),
          body |-> ProcessJSON(t, d, o3)]
  /\ UNCHANGED <<engineVars, chanVars, distVars, workerVars, resultVars,
                 historyVars, csvVars, mainVars, clockVars, stampVars,
                 buildVars, recorded, calculated, panicked, monVars>>

\* --------------------------------------- main: engine.NewStressEngine
\* util.NewLogger fails when the log file cannot be set up.
LoggerErrors == {NoError, "failed to create logger"}

\* Mutant of EngineError: a parser error is dropped.
EngineErrorDropped(parserErr, loggerErr) == loggerErr

\* The error NewStressEngine returns: the parser's, else the logger's.
EngineError(parserErr, loggerErr) ==
  IF parserErr # NoError THEN "failed to create CSV parser" ELSE loggerErr

\* tester, err := engine.NewStressEngine(cfg); if err != nil { os.Exit(1) }.
\* The parser is built only when cfg.CSVFile is set.
MainNewStressEngine ==
  /\ engineErr = Pending
  /\ \E loggerErr \in LoggerErrors :
       LET parser == IF csvFile = NoCSVFile
                       THEN [err |-> NoError, rowCount |-> 0]
                       ELSE NewCSVParser(csvFile)
       IN /\ engineErr' = EngineError(parser.err, loggerErr)
          /\ csvRows' = parser.rowCount
          /\ exitCode' = IF engineErr' # NoError THEN 1 ELSE exitCode
  /\ UNCHANGED <<engineVars, chanVars, distVars, workerVars, resultVars,
                 historyVars, requestID, flags, loaded, report, clockVars,
                 stampVars, csvFile, unitVars, monVars>>

\* ---------------------------------------------------------------- Init
\* State after NewStressEngine (types.NewStressResult, context.WithCancel),
\* whatever the CSV file.
NewStressEngine ==
  /\ cfg \in Configs
  /\ runPc = "idle"
  /\ stopped = 0
  /\ stopPending = FALSE
  /\ ctxDone = FALSE
  /\ monPc = "none"
  /\ chanLen = 0
  /\ chanClosed = FALSE
  /\ distPc = "none"
  /\ distI = 0
  /\ remaining = 0
  /\ timerFired = FALSE
  /\ wpc = [w \in Workers |-> "none"]
  /\ wres = [w \in Workers |-> NoResult]
  /\ TotalRequests = 0
  /\ SuccessfulRequests = 0
  /\ FailedRequests = 0
  /\ TotalResponseTime = 0
  /\ MinResponseTime = Hour
  /\ MaxResponseTime = 0
  /\ statusCodes = [c \in StatusCodes |-> 0]
  /\ errorCounts = [e \in ErrorTexts |-> 0]
  /\ DetailedResults = <<>>
  /\ resultIndex = 0
  /\ maxResults = MaxResults
  /\ P50ResponseTime = 0
  /\ P90ResponseTime = 0
  /\ P99ResponseTime = 0
  /\ emitted = 0
  /\ dequeued = 0
  /\ sentAfterCancel = FALSE
  /\ abortedInFlight = FALSE
  /\ returned = [n |-> 0, succ |-> 0, fail |-> 0, time |-> 0]
  /\ overlapSeen = FALSE
  /\ stopRepeated = FALSE
  /\ requestID = [w \in Workers |-> 0]
  /\ now = 0
  /\ reqStart = [w \in Workers |-> 0]
  /\ StartTime = 0
  /\ EndTime = 0
  /\ TotalDuration = 0
  /\ calculated = FALSE

\* The command line is outside the specifications of the engine.
MainIdle ==
  /\ flags = NoFlags
  /\ loaded = NotLoaded
  /\ report = NoReport
  /\ exitCode = NotExited

\* No AddResult call has panicked.
NoPanic == ""

\* No recordResult and no Process call is looked at on its own.
UnitIdle ==
  /\ recorded = NotRecorded
  /\ processed = NotProcessed
  /\ panicked = NoPanic

\* No CSV file configured: csvParser is nil.
Init ==
  /\ NewStressEngine
  /\ verbose = FALSE
  /\ csvFile = NoCSVFile
  /\ engineErr = NoError
  /\ csvRows = 0
  /\ MainIdle
  /\ UnitIdle

\* A CSV file with 1..MaxRows data rows.
InitCSV ==
  /\ NewStressEngine
  /\ verbose = FALSE
  /\ csvRows \in 1..MaxRows
  /\ csvFile = CSVFileOf(csvRows)
  /\ engineErr = NoError
  /\ MainIdle
  /\ UnitIdle

\* main before LoadFromFlags, for any command line; the engine, which main
\* constructs afterwards, is held at one constructed state.
InitFlags ==
  /\ NewStressEngine
  /\ verbose = FALSE
  /\ cfg.TotalRequests = 1 /\ cfg.Concurrency = 1
  /\ csvRows = 0
  /\ csvFile = NoCSVFile
  /\ engineErr = NoError
  /\ UnitIdle
  /\ flags \in FlagSets
  /\ loaded = NotLoaded
  /\ report = NoReport
  /\ exitCode = NotExited

\* main after Run has returned some result; the engine's own variables are
\* held at one constructed state.
InitExit ==
  /\ NewStressEngine
  /\ verbose = FALSE
  /\ cfg.TotalRequests = 1 /\ cfg.Concurrency = 1
  /\ csvRows = 0
  /\ csvFile = NoCSVFile
  /\ engineErr = NoError
  /\ UnitIdle
  /\ flags = NoFlags
  /\ loaded = NotLoaded
  /\ report \in Reports
  /\ exitCode = NotExited

\* ------------------------------------------------------- StressEngine.Run
\* Run up to waitForCompletion: startWorkers creates the channel, starts
\* Concurrency workers (wg.Add(1) each) and the distributor, which arms its
\* timer (duration mode) or sets remaining := TotalRequests (count mode);
\* in verbose mode the progress monitor is started.
RunStart ==
  /\ runPc = "idle"
  /\ runPc' = "waiting"
  /\ wpc' = [w \in Workers |-> "select"]
  /\ distPc' = IF IsDurationBased(cfg) THEN "dur_outer" ELSE "count_send"
  /\ remaining' = IF IsDurationBased(cfg) THEN 0 ELSE cfg.TotalRequests
  /\ distI' = 0
  /\ StartTime' = now
  /\ UNCHANGED <<cfg, stopped, stopPending, ctxDone, chanVars,
                 timerFired, wres, resultVars, historyVars>>
  /\ monPc' = IF verbose THEN "running" ELSE monPc
  /\ UNCHANGED <<csvVars, mainVars, clockVars, EndTime, TotalDuration,
                 buildVars, unitVars, verbose>>

\* ------------------------------------------------------ StressEngine.Stop
\* atomic.CompareAndSwapInt32(&e.stopped, 0, 1) succeeds: the call goes on to
\* cancel.  Stop may be called at any moment, from any goroutine.
StopCall ==
  /\ stopped = 0
  /\ stopped' = 1
  /\ stopPending' = TRUE
  /\ UNCHANGED <<cfg, runPc, ctxDone, chanVars, distVars, workerVars,
                 resultVars, historyVars>>
  /\ UNCHANGED envVars

\* Mutant of StopAgain: Stop without the CompareAndSwap guard, every call
\* goes on to cancel.
StopAgainCancels ==
  /\ stopped = 1
  /\ stopPending' = TRUE
  /\ stopRepeated' = TRUE
  /\ UNCHANGED <<cfg, runPc, stopped, ctxDone, chanVars, distVars, workerVars,
                 resultVars, emitted, dequeued, sentAfterCancel,
                 abortedInFlight, returned, overlapSeen>>
  /\ UNCHANGED envVars

\* The CompareAndSwap fails (a further call, sequential or concurrent with
\* the first): the call returns at once and leaves the engine as it is.
StopAgain ==
  /\ stopped = 1
  /\ stopRepeated' = TRUE
  /\ UNCHANGED <<engineVars, chanVars, distVars, workerVars, resultVars,
                 emitted, dequeued, sentAfterCancel, abortedInFlight,
                 returned, overlapSeen>>
  /\ UNCHANGED envVars

\* e.cancel() of the call that won the CAS.
StopCancel ==
  /\ stopPending
  /\ stopPending' = FALSE
  /\ ctxDone' = TRUE
  /\ UNCHANGED <<cfg, runPc, stopped, chanVars, distVars,
                 workerVars, resultVars, historyVars>>
  /\ UNCHANGED envVars

\* -------------------------------------------- StressEngine.sendRequests
\* One successful `requests <- struct{}{}`.
Enqueue(n) == n + 1

\* Mutant of BatchDone: the loop condition written i <= currentBatch.
BatchDoneOffByOne(i, currentBatch) == i > currentBatch

\* for i := 0; i < currentBatch; i++  -- the loop is over after i sends.
BatchDone(i, currentBatch) == i >= currentBatch

\* Mutant of DistReturn: sendRequests without the deferred close(requests).
DistReturnNoClose ==
  /\ distPc' = "done"
  /\ UNCHANGED chanClosed

\* return from sendRequests: the deferred close(requests).
DistReturn ==
  /\ distPc' = "done"
  /\ chanClosed' = TRUE

SendHistory ==
  /\ emitted' = emitted + 1
  /\ sentAfterCancel' = (sentAfterCancel \/ ctxDone)
  /\ UNCHANGED <<dequeued, abortedInFlight, returned, overlapSeen,
                 stopRepeated>>

\* Count mode, select case `requests <- struct{}{}` (blocks while full).
DistCountSend ==
  /\ distPc = "count_send"
  /\ chanLen < QueueCap(cfg)
  /\ chanLen' = Enqueue(chanLen)
  /\ SendHistory
  /\ LET currentBatch == min(CountBatchSize(cfg), remaining)
         i == distI + 1
     IN IF BatchDone(i, currentBatch)
          THEN /\ remaining' = remaining - currentBatch
               /\ distI' = 0
               /\ IF remaining' > 0
                    THEN distPc' = "count_send" /\ UNCHANGED chanClosed
                    ELSE DistReturn
          ELSE /\ distI' = i
               /\ UNCHANGED <<distPc, remaining, chanClosed>>
  /\ UNCHANGED <<engineVars, timerFired, workerVars, resultVars>>
  /\ UNCHANGED envVars

\* Mutant of DistCountCancelled: a plain blocking send, no ctx.Done case.
DistCountIgnoresCancel == FALSE

\* Count mode, select case `<-e.ctx.Done()`.
DistCountCancelled ==
  /\ distPc = "count_send"
  /\ ctxDone
  /\ DistReturn
  /\ UNCHANGED <<engineVars, chanLen, distI, remaining, timerFired,
                 workerVars, resultVars, historyVars>>
  /\ UNCHANGED envVars

\* Duration mode: the timer created by time.NewTimer(e.config.Duration) fires.
TimerFire ==
  /\ distPc \in {"dur_outer", "dur_inner"}
  /\ ~timerFired
  /\ timerFired' = TRUE
  /\ UNCHANGED <<engineVars, chanVars, distPc, distI, remaining, workerVars,
                 resultVars, historyVars>>
  /\ UNCHANGED envVars

\* Mutant of TimerExpire: the timer fires without waiting for the duration.
TimerExpireEarly == TimerFire

\* TimerFire on the clock: time.NewTimer(e.config.Duration) fires once the
\* duration has elapsed since the distributor started.
TimerExpire ==
  /\ now - StartTime >= cfg.Duration
  /\ TimerFire

\* Duration mode, outer select, cases `<-timer.C` and `<-e.ctx.Done()`.
DistDurStop ==
  /\ distPc = "dur_outer"
  /\ timerFired \/ ctxDone
  /\ DistReturn
  /\ UNCHANGED <<engineVars, chanLen, distI, remaining, timerFired,
                 workerVars, resultVars, historyVars>>
  /\ UNCHANGED envVars

\* Duration mode, outer select, default case: start a batch.  The deadline
\* is taken to elapse before more than MaxRequests signals are emitted.
DistDurBatch ==
  /\ distPc = "dur_outer"
  /\ ~timerFired /\ ~ctxDone
  /\ emitted + DurationBatchSize(cfg) <= MaxRequests
  /\ distPc' = "dur_inner"
  /\ distI' = 0
  /\ UNCHANGED <<engineVars, chanVars, remaining, timerFired, workerVars,
                 resultVars, historyVars>>
  /\ UNCHANGED envVars

DurAdvance ==
  LET i == distI + 1
  IN IF BatchDone(i, DurationBatchSize(cfg))
       THEN distPc' = "dur_outer" /\ distI' = 0
       ELSE distPc' = "dur_inner" /\ distI' = i

\* Duration mode, inner select, case `requests <- batch[i]`.
DistDurSend ==
  /\ distPc = "dur_inner"
  /\ chanLen < QueueCap(cfg)
  /\ chanLen' = Enqueue(chanLen)
  /\ SendHistory
  /\ DurAdvance
  /\ UNCHANGED <<engineVars, chanClosed, remaining, timerFired, workerVars,
                 resultVars>>
  /\ UNCHANGED envVars

\* Duration mode, inner select, case `<-e.ctx.Done()`.
DistDurCancelled ==
  /\ distPc = "dur_inner"
  /\ ctxDone
  /\ DistReturn
  /\ UNCHANGED <<engineVars, chanLen, distI, remaining, timerFired,
                 workerVars, resultVars, historyVars>>
  /\ UNCHANGED envVars

\* Duration mode, inner select, default case (channel full, context live):
\* time.Sleep(10us) and on to the next i; the signal is not retried.
DistDurSkip ==
  /\ distPc = "dur_inner"
  /\ ~(chanLen < QueueCap(cfg))
  /\ ~ctxDone
  /\ DurAdvance
  /\ UNCHANGED <<engineVars, chanVars, remaining, timerFired, workerVars,
                 resultVars, historyVars>>
  /\ UNCHANGED envVars

\* ------------------------------------------------------------ Worker.Run
\* Mutant of Dequeue: the signal stays in the channel for another worker.
DequeuePeek(n) == n

\* One successful receive from the requests channel.
Dequeue(n) == n - 1

\* select case `<-w.ctx.Done()`: return (deferred wg.Done).
WorkerCancelled(w) ==
  /\ wpc[w] = "select"
  /\ ctxDone
  /\ wpc' = [wpc EXCEPT ![w] = "exited"]
  /\ UNCHANGED <<engineVars, chanVars, distVars, wres, resultVars, historyVars>>
  /\ UNCHANGED envVars

\* select case `_, ok := <-requests` with ok = true, followed by makeRequest
\* up to the point where the request is on the wire.
WorkerReceive(w) ==
  /\ wpc[w] = "select"
  /\ chanLen > 0
  /\ chanLen' = Dequeue(chanLen)
  /\ dequeued' = dequeued + 1
  /\ IF csvFile # NoCSVFile
       THEN /\ requestID' = [requestID EXCEPT ![w] = @ + 1]
            /\ wres' = [wres EXCEPT ![w] =
                  Request(stopped = 0, GetRow(requestID'[w] - 1, csvRows))]
       ELSE /\ UNCHANGED requestID
            /\ wres' = [wres EXCEPT ![w] = Request(stopped = 0, NoRow)]
  /\ reqStart' = [reqStart EXCEPT ![w] = now]
  /\ UNCHANGED <<csvRows, mainVars, now, stampVars, buildVars, unitVars,
                 monVars>>
  /\ wpc' = [wpc EXCEPT ![w] = "inflight"]
  /\ UNCHANGED <<engineVars, chanClosed, distVars, resultVars, emitted,
                 sentAfterCancel, abortedInFlight, returned, overlapSeen,
                 stopRepeated>>

\* Mutant of WorkerClosed: the worker leaves as soon as the channel is
\* closed, without draining it.
WorkerClosedUndrained(w) ==
  /\ wpc[w] = "select"
  /\ chanClosed
  /\ wpc' = [wpc EXCEPT ![w] = "exited"]
  /\ UNCHANGED <<engineVars, chanVars, distVars, wres, resultVars, historyVars>>
  /\ UNCHANGED envVars

\* select case `_, ok := <-requests` with ok = false: closed and drained.
WorkerClosed(w) ==
  /\ wpc[w] = "select"
  /\ chanLen = 0 /\ chanClosed
  /\ wpc' = [wpc EXCEPT ![w] = "exited"]
  /\ UNCHANGED <<engineVars, chanVars, distVars, wres, resultVars, historyVars>>
  /\ UNCHANGED envVars

\* Mutant of TransportOutcomes: requests bound to a context that is already
\* cancelled.
TransportOutcomesDeadContext == NaturalOutcomes \cup {CanceledOutcome}

\* What req.Get(url) etc. can return for a request bound to w.ctx.
TransportOutcomes ==
  NaturalOutcomes \cup (IF ctxDone THEN {CanceledOutcome} ELSE {})

\* History: a request issued before Stop resolves with the context's error.
Aborted(w, o) == wres[w].early /\ o = CanceledOutcome

\* ------------------------------------------------ StressResult.AddResult
\* Mutant of AddDuration: a store instead of an add.
AddDurationStore(t, d) == d

\* atomic.AddInt64(&sr.TotalResponseTime, int64(result.Duration))
AddDuration(t, d) == t + d

\* Mutant of CountFailed: the failure branch forgets its counter.
CountFailedForgotten(n) == n

\* The failure branch's atomic.AddInt64(&sr.FailedRequests, 1)
CountFailed(n) == n + 1

\* Mutant of Bump: the entry is set to 1 instead of being incremented.
BumpStore(table, key) == [table EXCEPT ![key] = 1]

\* sr.statusCodes[result.StatusCode]++ / sr.errorCounts[result.Error]++
Bump(table, key) == [table EXCEPT ![key] = @ + 1]

\* GetSortedErrors, its second result: totalErrors += count over the
\* entries of sr.errorCounts.
RECURSIVE SumCounts(_, _)
SumCounts(table, keys) ==
  IF keys = {} THEN 0
  ELSE LET k == CHOOSE x \in keys : TRUE
       IN table[k] + SumCounts(table, keys \ {k})

TotalErrors(table) == SumCounts(table, DOMAIN table)

NewMin(cur, d) == IF d < cur \/ cur = Hour THEN d ELSE cur
NewMax(cur, d) == IF d > cur THEN d ELSE cur

\* Mutant of Overwrite: drop-on-overflow, the new outcome is discarded.
OverwriteDropNew(buf, idx, r) == buf

\* The ring-buffer branch: slot resultIndex (0-based) is overwritten and the
\* cursor advances modulo maxResults.
Overwrite(buf, idx, r) == [buf EXCEPT ![idx + 1] = r]
NextIndex(idx, m) == (idx + 1) % m

\* The final critical section: append below capacity, overwrite at capacity.
StoredBuffer(buf, idx, m, r) ==
  IF Len(buf) < m THEN Append(buf, r) ELSE Overwrite(buf, idx, r)
StoredIndex(buf, idx, m) ==
  IF Len(buf) < m THEN idx ELSE NextIndex(idx, m)

\* History: the result as it enters the buffer, stamped with its arrival
\* number, and the tally of the calls that returned.
Stamped(r) == [r EXCEPT !.seq = returned.n + 1]
Tally(r) == [n |-> returned.n + 1,
             succ |-> returned.succ + (IF r.Success THEN 1 ELSE 0),
             fail |-> returned.fail + (IF r.Success THEN 0 ELSE 1),
             time |-> returned.time + r.Duration]

\* The runtime panics of the ring-buffer branch.
IndexOutOfRange == "index out of range"
DivideByZero == "integer divide by zero"

\* What the final critical section does with a buffer of capacity m: the
\* slot index is checked before the cursor is advanced modulo m.
StoreFault(buf, idx, m) ==
  IF Len(buf) < m THEN NoPanic
  ELSE IF idx >= Len(buf) THEN IndexOutOfRange
  ELSE IF m = 0 THEN DivideByZero
  ELSE NoPanic

\* AddResult up to the final critical section: the counters, the tables
\* and the extremes.
AddCounters(r) ==
  /\ TotalRequests' = TotalRequests + 1
  /\ TotalResponseTime' = AddDuration(TotalResponseTime, r.Duration)
  /\ IF r.Success
       THEN /\ SuccessfulRequests' = SuccessfulRequests + 1
            /\ statusCodes' = Bump(statusCodes, r.StatusCode)
            /\ MinResponseTime' = NewMin(MinResponseTime, r.Duration)
            /\ MaxResponseTime' = NewMax(MaxResponseTime, r.Duration)
            /\ UNCHANGED <<FailedRequests, errorCounts>>
       ELSE /\ FailedRequests' = CountFailed(FailedRequests)
            /\ errorCounts' = Bump(errorCounts, r.Error)
            /\ UNCHANGED <<SuccessfulRequests, statusCodes, extremeVars>>

\* AddResult(r) as one step.
AddResult(r) ==
  /\ AddCounters(r)
  /\ DetailedResults' = StoredBuffer(DetailedResults, resultIndex, maxResults,
                                     Stamped(r))
  /\ resultIndex' = StoredIndex(DetailedResults, resultIndex, maxResults)
  /\ returned' = Tally(r)
  /\ UNCHANGED <<maxResults, percentileVars>>

\* AddResult(r) panicking in the ring-buffer branch: the counters are
\* updated, the buffer is left as it was and the call does not return.
AddResultPanics(r) ==
  /\ AddCounters(r)
  /\ panicked' = StoreFault(DetailedResults, resultIndex, maxResults)
  /\ UNCHANGED <<bufferVars, percentileVars, returned>>

\* SetMaxResults(max): the capacity is replaced; a longer buffer is cut to
\* its first max slots and the cursor reset.
SetMaxResults(max) ==
  /\ maxResults' = max
  /\ IF Len(DetailedResults) > max
       THEN /\ DetailedResults' = SubSeq(DetailedResults, 1, max)
            /\ resultIndex' = 0
       ELSE UNCHANGED <<DetailedResults, resultIndex>>

\* makeRequest from the moment the exchange resolves (req.Get(url) etc.
\* returns): recordResult builds the RequestResult, AddResult records it, and
\* the worker is back at its select.
WorkerRecord(w) ==
  /\ wpc[w] = "inflight"
  /\ \E o \in TransportOutcomes :
       /\ AddResult(recordResult(o))
       /\ abortedInFlight' = (abortedInFlight \/ Aborted(w, o))
  /\ wres' = [wres EXCEPT ![w] = NoResult]
  /\ wpc' = [wpc EXCEPT ![w] = "select"]
  /\ UNCHANGED <<engineVars, chanVars, distVars, emitted, dequeued,
                 sentAfterCancel, overlapSeen, stopRepeated>>
  /\ UNCHANGED envVars

\* ------------------------------- AddResult, one atomic operation at a time
\* The three mutexes (statusCodesLock, errorCountsLock, resultsLock) each
\* guard fields that are written nowhere outside their critical sections,
\* and no section blocks: Lock ; body ; Unlock is one atomic action.

\* Positions inside AddResult after its first write.
AddStartedPcs == {"add_time", "add_flag", "add_status", "add_errors",
                  "add_extremes", "add_buffer"}

AddStarted(w) == wpc[w] \in AddStartedPcs

\* The exchange resolves, recordResult builds the RequestResult and calls
\* AddResult, whose first statement is atomic.AddInt64(&sr.TotalRequests, 1).
WorkerResolve(w) ==
  /\ wpc[w] = "inflight"
  /\ \E o \in TransportOutcomes :
       /\ wres' = [wres EXCEPT ![w] = recordResult(o)]
       /\ abortedInFlight' = (abortedInFlight \/ Aborted(w, o))
  /\ TotalRequests' = TotalRequests + 1
  /\ wpc' = [wpc EXCEPT ![w] = "add_time"]
  /\ overlapSeen' = (overlapSeen \/ \E v \in Workers \ {w} : AddStarted(v))
  /\ UNCHANGED <<engineVars, chanVars, distVars, SuccessfulRequests,
                 FailedRequests, TotalResponseTime, extremeVars, tableVars,
                 bufferVars, percentileVars, emitted, dequeued,
                 sentAfterCancel, returned, stopRepeated>>
  /\ UNCHANGED envVars

\* atomic.AddInt64(&sr.TotalResponseTime, int64(result.Duration))
AddTime(w) ==
  /\ wpc[w] = "add_time"
  /\ TotalResponseTime' = AddDuration(TotalResponseTime, wres[w].Duration)
  /\ wpc' = [wpc EXCEPT ![w] = "add_flag"]
  /\ UNCHANGED <<engineVars, chanVars, distVars, wres, TotalRequests,
                 SuccessfulRequests, FailedRequests, extremeVars, tableVars,
                 bufferVars, percentileVars, historyVars>>
  /\ UNCHANGED envVars

\* Mutant of AddFlag: a success is counted twice.
AddFlagTwice(w) ==
  /\ wpc[w] = "add_flag"
  /\ IF wres[w].Success
       THEN /\ SuccessfulRequests' = SuccessfulRequests + 2
            /\ UNCHANGED FailedRequests
            /\ wpc' = [wpc EXCEPT ![w] = "add_status"]
       ELSE /\ FailedRequests' = CountFailed(FailedRequests)
            /\ UNCHANGED SuccessfulRequests
            /\ wpc' = [wpc EXCEPT ![w] = "add_errors"]
  /\ UNCHANGED <<engineVars, chanVars, distVars, wres, TotalRequests,
                 TotalResponseTime, extremeVars, tableVars, bufferVars,
                 percentileVars, historyVars>>
  /\ UNCHANGED envVars

\* if result.Success { atomic add SuccessfulRequests } else { ... Failed }
AddFlag(w) ==
  /\ wpc[w] = "add_flag"
  /\ IF wres[w].Success
       THEN /\ SuccessfulRequests' = SuccessfulRequests + 1
            /\ UNCHANGED FailedRequests
            /\ wpc' = [wpc EXCEPT ![w] = "add_status"]
       ELSE /\ FailedRequests' = CountFailed(FailedRequests)
            /\ UNCHANGED SuccessfulRequests
            /\ wpc' = [wpc EXCEPT ![w] = "add_errors"]
  /\ UNCHANGED <<engineVars, chanVars, distVars, wres, TotalRequests,
                 TotalResponseTime, extremeVars, tableVars, bufferVars,
                 percentileVars, historyVars>>
  /\ UNCHANGED envVars

\* statusCodesLock: sr.statusCodes[result.StatusCode]++
AddStatus(w) ==
  /\ wpc[w] = "add_status"
  /\ statusCodes' = Bump(statusCodes, wres[w].StatusCode)
  /\ wpc' = [wpc EXCEPT ![w] = "add_extremes"]
  /\ UNCHANGED <<engineVars, chanVars, distVars, wres, counterVars,
                 extremeVars, errorCounts, bufferVars, percentileVars,
                 historyVars>>
  /\ UNCHANGED envVars

\* errorCountsLock: sr.errorCounts[result.Error]++
AddErrors(w) ==
  /\ wpc[w] = "add_errors"
  /\ errorCounts' = Bump(errorCounts, wres[w].Error)
  /\ wpc' = [wpc EXCEPT ![w] = "add_buffer"]
  /\ UNCHANGED <<engineVars, chanVars, distVars, wres, counterVars,
                 extremeVars, statusCodes, bufferVars, percentileVars,
                 historyVars>>
  /\ UNCHANGED envVars

\* resultsLock (success branch): min / max update
AddExtremes(w) ==
  /\ wpc[w] = "add_extremes"
  /\ MinResponseTime' = NewMin(MinResponseTime, wres[w].Duration)
  /\ MaxResponseTime' = NewMax(MaxResponseTime, wres[w].Duration)
  /\ wpc' = [wpc EXCEPT ![w] = "add_buffer"]
  /\ UNCHANGED <<engineVars, chanVars, distVars, wres, counterVars,
                 tableVars, bufferVars, percentileVars, historyVars>>
  /\ UNCHANGED envVars

\* resultsLock: append below capacity, overwrite at capacity ; return to the
\* worker loop.
AddBuffer(w) ==
  /\ wpc[w] = "add_buffer"
  /\ DetailedResults' = StoredBuffer(DetailedResults, resultIndex, maxResults,
                                     Stamped(wres[w]))
  /\ resultIndex' = StoredIndex(DetailedResults, resultIndex, maxResults)
  /\ returned' = Tally(wres[w])
  /\ wres' = [wres EXCEPT ![w] = NoResult]
  /\ wpc' = [wpc EXCEPT ![w] = "select"]
  /\ UNCHANGED <<engineVars, chanVars, distVars, counterVars, extremeVars,
                 tableVars, maxResults, percentileVars, emitted, dequeued,
                 sentAfterCancel, abortedInFlight, overlapSeen, stopRepeated>>
  /\ UNCHANGED envVars

\* ---------------------------------------- StressResult.CalculateMetrics
RECURSIVE Insert(_, _)
Insert(x, sorted) ==
  IF sorted = <<>> THEN <<x>>
  ELSE IF x <= Head(sorted) THEN <<x>> \o sorted
  ELSE <<Head(sorted)>> \o Insert(x, Tail(sorted))

\* Mutant of SortAsc: the durations are left in buffer order.
SortSkipped(seq) == seq

\* sort.Slice(responseTimes, less) -- ascending
RECURSIVE SortAsc(_)
SortAsc(seq) == IF seq = <<>> THEN <<>> ELSE Insert(Head(seq), SortAsc(Tail(seq)))

\* Mutant of SuccessDurations: the failed outcomes are sampled as well.
RECURSIVE AllDurations(_)
AllDurations(buf) ==
  IF buf = <<>> THEN <<>>
  ELSE <<Head(buf).Duration>> \o AllDurations(Tail(buf))

\* Durations of the successful outcomes held in the buffer, in buffer order.
RECURSIVE SuccessDurations(_)
SuccessDurations(buf) ==
  IF buf = <<>> THEN <<>>
  ELSE (IF Head(buf).Success THEN <<Head(buf).Duration>> ELSE <<>>)
       \o SuccessDurations(Tail(buf))

\* Fixed-stride down-sampling of more than SampleThreshold values.
Sampled(rt) ==
  IF Len(rt) > SampleThreshold
    THEN LET step == Len(rt) \div SampleThreshold
         IN [i \in 1..SampleThreshold |-> rt[(i - 1) * step + 1]]
    ELSE rt

\* Mutant of calculatePercentile: the value at the lower rank, without
\* interpolation.
calculatePercentileLower(sortedData, pct) ==
  IF Len(sortedData) = 0 THEN 0
  ELSE sortedData[(pct * (Len(sortedData) - 1)) \div 100 + 1]

\* calculatePercentile(sortedData, pct/100): index = pct/100 * (n-1),
\* interpolation between sortedData[lower] and sortedData[upper]; the
\* float64 arithmetic is done in hundredths, the conversion to Duration
\* truncates.
calculatePercentile(sortedData, pct) ==
  IF Len(sortedData) = 0 THEN 0
  ELSE LET scaled == pct * (Len(sortedData) - 1)
           lower == scaled \div 100
           upper == lower + 1
           weight == scaled % 100
       IN IF upper >= Len(sortedData)
            THEN sortedData[lower + 1]
            ELSE (sortedData[lower + 1] * (100 - weight)
                  + sortedData[upper + 1] * weight) \div 100

\* calculatePercentiles: the three percentiles, or the old values when the
\* buffer holds no successful outcome.
calculatePercentiles(buf, old) ==
  LET responseTimes == SuccessDurations(buf)
  IN IF Len(buf) = 0 \/ Len(responseTimes) = 0
       THEN old
       ELSE LET sorted == SortAsc(Sampled(responseTimes))
            IN <<calculatePercentile(sorted, 50),
                 calculatePercentile(sorted, 90),
                 calculatePercentile(sorted, 99)>>

\* Mutant of waitForCompletion: Run does not wait for the workers.
waitForCompletionNoWait == TRUE

\* e.wg.Wait() returns: every worker has called its deferred wg.Done.
waitForCompletion == \A w \in Workers : wpc[w] = "exited"

\* waitForCompletion returns (wg.Wait: every worker has called wg.Done), then
\* EndTime is set and CalculateMetrics runs; Run returns the result.
\* Wall-clock timestamps (StartTime, EndTime, TotalDuration) are not modelled.
RunFinish ==
  /\ runPc = "waiting"
  /\ waitForCompletion
  /\ LET p == calculatePercentiles(DetailedResults,
                <<P50ResponseTime, P90ResponseTime, P99ResponseTime>>)
     IN /\ P50ResponseTime' = p[1]
        /\ P90ResponseTime' = p[2]
        /\ P99ResponseTime' = p[3]
  /\ EndTime' = now
  /\ TotalDuration' = EndTime' - StartTime
  /\ runPc' = "done"
  /\ UNCHANGED <<cfg, stopped, stopPending, ctxDone, chanVars,
                 distVars, workerVars, counterVars, extremeVars, tableVars,
                 bufferVars, historyVars>>
  /\ calculated' = TRUE
  /\ UNCHANGED <<csvVars, mainVars, clockVars, StartTime, buildVars,
                 recorded, processed, panicked, monVars>>

\* ------------------------------------ a StressResult used on its own
\* GetMinResponseTime: 0 while MinResponseTime is the sentinel time.Hour.
GetMinResponseTime(m) == IF m = Hour THEN 0 ELSE m

\* GetMaxResponseTime
GetMaxResponseTime(m) == m

\* Durations of successful exchanges, time.Hour and beyond included (the
\* per-request timeout is whatever -timeout sets), and of failed ones.
Durations == {1, 3, Hour, Hour + 1}
FailedDurations == {2, Hour + 2}

\* What a caller of recordResult can hand over.
UnitOutcomes ==
  {[err |-> "", status |-> StatusOK, dur |-> d, size |-> 2] :
      d \in Durations}
  \cup {[err |-> "", status |-> StatusServerError, dur |-> d, size |-> 1] :
          d \in FailedDurations}
  \cup {[err |-> TimeoutError, status |-> 0, dur |-> d, size |-> 0] :
          d \in FailedDurations}

\* One recordResult / AddResult call, made before the metrics are computed.
AddResultCall ==
  /\ ~calculated
  /\ returned.n <= MaxRequests
  /\ \E o \in UnitOutcomes : AddResult(recordResult(o))
  /\ UNCHANGED <<engineVars, chanVars, distVars, workerVars, emitted,
                 dequeued, sentAfterCancel, abortedInFlight, overlapSeen,
                 stopRepeated>>
  /\ UNCHANGED envVars

\* Outcomes fed to a buffer whose capacity changes: one success, one
\* failure.
BufferOutcomes ==
  {o \in UnitOutcomes : o.dur \in {1, 2} /\ o.err = ""}

\* One AddResult call on a buffer whose capacity may have been changed: it
\* returns or panics; a panic ends the process.
BufferAddResult ==
  /\ panicked = NoPanic
  /\ returned.n <= MaxRequests
  /\ \E o \in BufferOutcomes :
       IF StoreFault(DetailedResults, resultIndex, maxResults) = NoPanic
         THEN AddResult(recordResult(o)) /\ panicked' = panicked
         ELSE AddResultPanics(recordResult(o))
  /\ UNCHANGED <<engineVars, chanVars, distVars, workerVars, emitted,
                 dequeued, sentAfterCancel, abortedInFlight, overlapSeen,
                 stopRepeated>>
  /\ UNCHANGED <<csvVars, mainVars, clockVars, stampVars, buildVars,
                 recorded, processed, calculated, monVars>>

\* One SetMaxResults call, with any capacity from 0 up.
SetMaxResultsCall ==
  /\ panicked = NoPanic
  /\ \E max \in 0..(MaxResults + 1) : SetMaxResults(max)
  /\ UNCHANGED <<engineVars, chanVars, distVars, workerVars, counterVars,
                 extremeVars, tableVars, percentileVars, historyVars>>
  /\ UNCHANGED envVars

\* CalculateMetrics: TotalDuration and the percentile snapshot.
CalculateMetrics ==
  /\ ~calculated
  /\ TotalDuration' = EndTime - StartTime
  /\ LET p == calculatePercentiles(DetailedResults,
                <<P50ResponseTime, P90ResponseTime, P99ResponseTime>>)
     IN /\ P50ResponseTime' = p[1]
        /\ P90ResponseTime' = p[2]
        /\ P99ResponseTime' = p[3]
  /\ calculated' = TRUE
  /\ UNCHANGED <<engineVars, chanVars, distVars, workerVars, counterVars,
                 extremeVars, tableVars, bufferVars, historyVars>>
  /\ UNCHANGED <<csvVars, mainVars, clockVars, StartTime, EndTime, buildVars,
                 recorded, processed, panicked, monVars>>

\* ------------------------------------------------------------ the clock
\* The clock is stopped MaxTime ticks after the start.
MaxTime == cfg.Duration + (2 + QueueFactor) * RequestTimeout

\* One tick of the wall clock.  Scheduling and local computation take no
\* time: the clock does not advance past a request's timeout (the client
\* gives up at RequestTimeout), while a worker has something to receive,
\* once the deadline is reached and the distributor has not returned, or
\* when Run can return.
Tick ==
  /\ runPc = "waiting"
  /\ now - StartTime < MaxTime
  /\ \A w \in Workers :
       wpc[w] = "inflight" => now - reqStart[w] < RequestTimeout
  /\ \A w \in Workers :
       wpc[w] = "select" => chanLen = 0 /\ ~chanClosed /\ ~ctxDone
  /\ IsDurationBased(cfg) /\ now - StartTime >= cfg.Duration
       => distPc = "done"
  /\ ~waitForCompletion
  /\ now' = now + 1
  /\ UNCHANGED <<engineVars, chanVars, distVars, workerVars, resultVars,
                 historyVars, csvVars, mainVars, reqStart, stampVars,
                 buildVars, unitVars, monVars>>

\* ------------------------------------------------------- specifications
\* Steps of the engine outside the workers' request handling.
EngineStep ==
  \/ RunStart
  \/ StopCall
  \/ StopCancel
  \/ DistCountSend
  \/ DistCountCancelled
  \/ TimerFire
  \/ DistDurStop
  \/ DistDurBatch
  \/ DistDurSend
  \/ DistDurCancelled
  \/ DistDurSkip
  \/ \E w \in Workers : WorkerCancelled(w)
  \/ \E w \in Workers : WorkerReceive(w)
  \/ \E w \in Workers : WorkerClosed(w)
  \/ RunFinish

Next ==
  \/ EngineStep
  \/ \E w \in Workers : WorkerRecord(w)

Spec == Init /\ [][Next]_vars

StepNext ==
  \/ EngineStep
  \/ \E w \in Workers : WorkerResolve(w)
  \/ \E w \in Workers : AddTime(w)
  \/ \E w \in Workers : AddFlag(w)
  \/ \E w \in Workers : AddStatus(w)
  \/ \E w \in Workers : AddErrors(w)
  \/ \E w \in Workers : AddExtremes(w)
  \/ \E w \in Workers : AddBuffer(w)

StepSpec == Init /\ [][StepNext]_vars

\* Spec with the Stop calls that come after the first one made explicit.
StopNext ==
  \/ Next
  \/ StopAgain

StopSpec == Init /\ [][StopNext]_vars

\* Spec for a run parameterised by a CSV file.
CSVSpec == InitCSV /\ [][Next]_vars

\* A duration-based run on the clock, Stop never called.
InitTimed ==
  /\ Init
  /\ IsDurationBased(cfg)

TimedNext ==
  \/ RunStart
  \/ TimerExpire
  \/ DistDurStop
  \/ DistDurBatch
  \/ DistDurSend
  \/ DistDurSkip
  \/ \E w \in Workers : WorkerReceive(w)
  \/ \E w \in Workers : WorkerClosed(w)
  \/ \E w \in Workers : WorkerRecord(w)
  \/ RunFinish
  \/ Tick

TimedSpec == InitTimed /\ [][TimedNext]_vars

\* Loading and validating the configuration.
FlagsNext == Load

FlagsSpec == InitFlags /\ [][FlagsNext]_vars

\* The exit-code decision.
ExitNext == Exit

ExitSpec == InitExit /\ [][ExitNext]_vars

\* A part of the program on its own, the engine held at one constructed
\* state.
InitUnit ==
  /\ Init
  /\ cfg.TotalRequests = 1 /\ cfg.Concurrency = 1

\* A StressResult fed by AddResult calls and then finalized.

ResultNext ==
  \/ AddResultCall
  \/ CalculateMetrics

ResultSpec == InitUnit /\ [][ResultNext]_vars

\* --------------------------------------------------- monitorProgress
\* case <-ticker.C: the goroutine returns when e.stopped is 1 and otherwise
\* logs the progress and loops.
MonitorTick ==
  /\ monPc = "running"
  /\ monPc' = IF stopped = 1 THEN "exited" ELSE "running"
  /\ UNCHANGED <<engineVars, chanVars, distVars, workerVars, resultVars,
                 historyVars>>
  /\ UNCHANGED <<csvVars, mainVars, clockVars, stampVars, buildVars,
                 unitVars, verbose>>

\* case <-e.ctx.Done(): the goroutine returns.
MonitorCancelled ==
  /\ monPc = "running"
  /\ ctxDone
  /\ monPc' = "exited"
  /\ UNCHANGED <<engineVars, chanVars, distVars, workerVars, resultVars,
                 historyVars>>
  /\ UNCHANGED <<csvVars, mainVars, clockVars, stampVars, buildVars,
                 unitVars, verbose>>

\* A verbose run (-v) of a single worker: Run starts the progress monitor.
InitVerbose ==
  /\ NewStressEngine
  /\ cfg.Concurrency = 1
  /\ verbose = TRUE
  /\ csvFile = NoCSVFile
  /\ engineErr = NoError
  /\ csvRows = 0
  /\ MainIdle
  /\ UnitIdle

VerboseNext ==
  \/ Next
  \/ MonitorTick
  \/ MonitorCancelled

VerboseSpec == InitVerbose /\ [][VerboseNext]_vars

\* A StressResult whose buffer capacity is changed between AddResult calls.
BufferNext ==
  \/ BufferAddResult
  \/ SetMaxResultsCall

BufferSpec == InitUnit /\ [][BufferNext]_vars

\* One recordResult call for any transport answer.
RecordNext == RecordCall

RecordSpec == InitUnit /\ [][RecordNext]_vars

\* One template step for any template and any row.
TemplateNext == ProcessCall

TemplateSpec == InitUnit /\ [][TemplateNext]_vars

\* main from NewStressEngine on: the run takes place when the engine was
\* constructed; single-worker configurations.
MainRun ==
  /\ engineErr = NoError
  /\ Next

InitBuild ==
  /\ NewStressEngine
  /\ verbose = FALSE
  /\ cfg.Concurrency = 1
  /\ csvFile \in CSVFiles
  /\ engineErr = Pending
  /\ csvRows = 0
  /\ MainIdle
  /\ UnitIdle

BuildNext ==
  \/ MainNewStressEngine
  \/ MainRun

BuildSpec == InitBuild /\ [][BuildNext]_vars

\* Steps of the goroutines the Go scheduler keeps running: the Run goroutine,
\* the distributor, each worker, and the Stop call that has won the CAS.  The
\* timer fires once the duration has elapsed and every issued request
\* eventually returns.  Whether and when Stop is called is up to the caller.
DistStep ==
  \/ DistCountSend \/ DistCountCancelled
  \/ DistDurStop \/ DistDurBatch \/ DistDurSend \/ DistDurCancelled \/ DistDurSkip

WorkerStep(w) ==
  /\ w \in Workers
  /\ \/ WorkerCancelled(w) \/ WorkerReceive(w) \/ WorkerClosed(w)
     \/ WorkerRecord(w)

Fairness ==
  /\ WF_vars(RunStart)
  /\ WF_vars(RunFinish)
  /\ WF_vars(StopCancel)
  /\ WF_vars(TimerFire)
  /\ WF_vars(DistStep)
  /\ \A w \in 1..MaxConcurrency : WF_vars(WorkerStep(w))

FairSpec == Spec /\ Fairness

\* ============================================================== claims
\* No AddResult call is between its first write and its return.
Quiescent == \A w \in Workers : ~AddStarted(w)

CountMode == ~IsDurationBased(cfg)

InFlight == {w \in Workers : wpc[w] = "inflight"}
InAddResult == {w \in Workers : AddStarted(w)}

\* C1: in count mode with TotalRequests = N and no Stop, the distributor
\* never emits more than N signals, has emitted exactly N when it returns,
\* and exactly N outcomes are recorded when Run returns.
C1_CountModeEmitsAndRecordsN ==
  (CountMode /\ stopped = 0) =>
    /\ emitted <= cfg.TotalRequests
    /\ (distPc = "done" => emitted = cfg.TotalRequests)
    /\ (runPc = "done" => /\ emitted = cfg.TotalRequests
                          /\ TotalRequests = cfg.TotalRequests)

C1_Witness ==
  /\ CountMode /\ stopped = 0 /\ runPc = "done"
  /\ cfg.TotalRequests = MaxRequests /\ cfg.Concurrency = MaxConcurrency
  /\ SuccessfulRequests > 0
  /\ errorCounts[TimeoutError] > 0
  /\ errorCounts[HTTPError(StatusServerError)] > 0

\* C2: whenever no AddResult call is in progress,
\* TotalRequests = SuccessfulRequests + FailedRequests.
C2_TotalIsSuccessPlusFailed ==
  Quiescent => TotalRequests = SuccessfulRequests + FailedRequests

C2_Witness ==
  /\ Quiescent /\ overlapSeen /\ runPc = "done"
  /\ cfg.Concurrency = MaxConcurrency
  /\ SuccessfulRequests > 0 /\ FailedRequests > 0

\* C3: once all AddResult calls made so far have returned, each of them is
\* reflected exactly once in the counters, in the latency sum and in the
\* detail buffer, whatever their interleaving.
C3_EveryOutcomeReflectedOnce ==
  Quiescent =>
    /\ TotalRequests = returned.n
    /\ SuccessfulRequests = returned.succ
    /\ FailedRequests = returned.fail
    /\ TotalResponseTime = returned.time
    /\ Len(DetailedResults) = min(returned.n, maxResults)

C3_Witness ==
  /\ Quiescent /\ overlapSeen
  /\ returned.n = MaxRequests
  /\ returned.succ > 0 /\ returned.fail > 0

AllWorkersExited == \A w \in Workers : wpc[w] = "exited"

\* C4: under FairSpec (every issued request eventually returns, the timer
\* eventually fires), a run in which Stop is never called eventually returns
\* from Run, in count mode and in duration mode, whatever the outcomes.
C4_RunCompletesWithoutStop == <>(runPc = "done" \/ stopped # 0)

C4_Witness ==
  /\ runPc = "done" /\ stopped = 0
  /\ IsDurationBased(cfg)
  /\ SuccessfulRequests = 0
  /\ FailedRequests = MaxRequests

\* C5: under FairSpec, once Stop has been called (at any moment, also before
\* Run starts), eventually every worker and the distributor have exited and
\* Run has returned.
C5_StopLeadsToExit ==
  (stopped = 1) ~> (runPc = "done" /\ distPc = "done" /\ AllWorkersExited)

\* The distributor was interrupted by Stop with the queue full and signals
\* still to send, and everything has terminated.
C5_Witness ==
  /\ runPc = "done" /\ distPc = "done" /\ AllWorkersExited
  /\ ctxDone
  /\ CountMode /\ emitted < cfg.TotalRequests
  /\ chanLen = QueueCap(cfg)

\* Arrival numbers of the outcomes held in the buffer, in slot order.
BufferSeqs == [i \in 1..Len(DetailedResults) |-> DetailedResults[i].seq]

\* seq read cyclically from 0-based position k on.
Rotate(seq, k) ==
  [i \in 1..Len(seq) |-> seq[((k + i - 1) % Len(seq)) + 1]]

\* The arrival numbers from..to in order.
Arrivals(from, to) == [i \in 1..(to - from + 1) |-> from + i - 1]

\* C6: the detail buffer never holds more than maxResults outcomes; up to
\* maxResults arrivals it holds all of them in arrival order; after more
\* than maxResults arrivals it holds exactly the maxResults most recent
\* ones, and the slot under the cursor holds the oldest of them.
C6_BufferHoldsMostRecent ==
  /\ Len(DetailedResults) <= maxResults
  /\ (returned.n <= maxResults =>
        BufferSeqs = Arrivals(1, returned.n) /\ resultIndex = 0)
  /\ (returned.n > maxResults =>
        /\ Len(DetailedResults) = maxResults
        /\ Rotate(BufferSeqs, resultIndex)
             = Arrivals(returned.n - maxResults + 1, returned.n))

\* The buffer has wrapped, the cursor is off slot 0, and calls overlapped.
C6_Witness ==
  /\ returned.n > maxResults
  /\ resultIndex # 0
  /\ overlapSeen

\* C7: every emitted signal is in the queue or was dequeued exactly once;
\* every dequeued signal is in flight with one worker, inside one AddResult
\* call, or has one recorded outcome; hence recorded <= dequeued <= emitted.
C7_SignalsConsumedOnce ==
  /\ emitted = dequeued + chanLen
  /\ dequeued = TotalRequests + Cardinality(InFlight)
  /\ TotalRequests = returned.n + Cardinality(InAddResult)
  /\ TotalRequests <= dequeued /\ dequeued <= emitted

\* Both workers processed signals and others are left unconsumed in the
\* queue at shutdown.
C7_Witness ==
  /\ AllWorkersExited /\ distPc = "done"
  /\ chanLen > 0
  /\ returned.n >= 2 /\ overlapSeen
  /\ cfg.Concurrency = MaxConcurrency

\* C8: once the context is cancelled the distributor puts at most one more
\* signal on the queue: after one such emission there is no further one.
C8_AtMostOneEmissionAfterCancel ==
  [][sentAfterCancel => emitted' = emitted]_vars

\* C9: once the context is cancelled no worker takes another signal from
\* the queue.
C9_NoDequeueAfterCancel == [][ctxDone => dequeued' = dequeued]_vars

\* Outcomes held in the detail buffer.
Recorded == {DetailedResults[i] : i \in 1..Len(DetailedResults)}

\* C10 as stated: a request issued before Stop was called is never aborted,
\* it is recorded with the outcome of its own exchange.
C10_InFlightNeverAborted == ~abortedInFlight

\* C10 amended: a request resolves with the outcome of its exchange or, only
\* once the cancellation signal has been raised, with the context's
\* cancellation error; the outcome it resolved with is the one recorded.
C10_AbortOnlyAfterCancel ==
  /\ \A r \in Recorded :
       \/ r.Error = CtxCanceled /\ ctxDone /\ ~r.Success
       \/ \E o \in NaturalOutcomes : r = [recordResult(o) EXCEPT !.seq = r.seq]
  /\ (errorCounts[CtxCanceled] > 0 => ctxDone)
  /\ (abortedInFlight => errorCounts[CtxCanceled] > 0)

\* A request that was in flight when Stop was called is in the buffer as a
\* cancellation failure, next to one that resolved on its own.
C10_Witness ==
  /\ abortedInFlight
  /\ \E r \in Recorded : r.Error = CtxCanceled
  /\ \E r \in Recorded : r.Error = TimeoutError

\* C11: Stop is idempotent.  The stopped flag goes 0 -> 1 once and never
\* back, the cancellation signal is raised once, by the one call that set the
\* flag, and never withdrawn, and a further Stop call changes nothing.
C11_StopIdempotent ==
  [][/\ stopped' \in {0, 1}
     /\ (stopped = 1 => stopped' = 1)
     /\ (ctxDone => ctxDone')
     /\ (ctxDone' /\ ~ctxDone => stopPending /\ ~stopPending')
     /\ (stopPending' /\ ~stopPending => stopped = 0 /\ stopped' = 1)
     /\ (stopRepeated' /\ ~stopRepeated =>
           UNCHANGED <<engineVars, chanVars, distVars, workerVars,
                       resultVars>>)]_vars

\* A further Stop call was made and the run has shut down.
C11_Witness ==
  /\ stopRepeated
  /\ stopped = 1 /\ ctxDone /\ ~stopPending
  /\ runPc = "done" /\ AllWorkersExited

\* C12: Run finalizes (EndTime, CalculateMetrics) once, in a step taken when
\* every worker has exited and no AddResult call is in progress; once Run has
\* returned it stays returned and no field of the result changes any more.
C12_FinalizedOnceAfterWorkers ==
  /\ [](runPc = "done" => AllWorkersExited /\ Quiescent)
  /\ [][runPc' = "done" /\ runPc # "done" =>
          /\ AllWorkersExited /\ Quiescent
          /\ UNCHANGED <<counterVars, extremeVars, tableVars, bufferVars>>]_vars
  /\ [][runPc = "done" => runPc' = "done" /\ UNCHANGED resultVars]_vars

\* Run has returned after overlapping AddResult calls, percentiles computed.
C12_Witness ==
  /\ runPc = "done"
  /\ overlapSeen
  /\ TotalRequests = MaxRequests
  /\ P50ResponseTime > 0

\* Worker w resolves a CSV row and puts its request on the wire in this step.
Resolves(w) == csvRows > 0 /\ wpc[w] = "select" /\ wpc'[w] = "inflight"

\* C13: the i-th row resolution of the run, counted over all workers from
\* i = 0, uses row i mod K.
C13_SharedRowIndex ==
  [][\A w \in Workers :
       Resolves(w) => wres'[w].row = dequeued % csvRows]_vars

\* C14: with one worker, the n-th request (n >= 0) uses row n mod K.
C14_SingleWorkerRowsInOrder ==
  [][cfg.Concurrency = 1 /\ Resolves(1) =>
       wres'[1].row = dequeued % csvRows]_vars

\* One worker, two rows: the third request is on the wire with row 0 again.
C14_Witness ==
  /\ cfg.Concurrency = 1 /\ csvRows = 2
  /\ wpc[1] = "inflight"
  /\ dequeued = 3 /\ requestID[1] = 3
  /\ wres[1].row = 0

\* LoadFromFlags has returned.
Loaded == loaded # NotLoaded

\* Exactly one of duration and total-request-count is set.
ExactlyOneLimit(c) == (c.Duration > 0) # (c.TotalRequests > 0)

\* C15: validation rejects the configuration exactly when the URL is empty,
\* or concurrency is not positive, or the method is not a supported one, or
\* it is not the case that exactly one of duration and count is set.
C15_RejectedExactlyWhenInvalid ==
  Loaded =>
    LET c == FlagConfig(flags)
    IN (loaded.err # "") <=>
         \/ c.URL = ""
         \/ c.Concurrency <= 0
         \/ ToUpper(c.Method) \notin validMethods
         \/ ~ExactlyOneLimit(c)

\* Only -url, -c and -d are given, with a positive concurrency and duration.
OnlyUrlConcurrencyDuration ==
  /\ flags.url.given /\ flags.url.v # ""
  /\ flags.c.given /\ flags.c.v > 0
  /\ flags.d.given /\ flags.d.v > 0
  /\ ~flags.n.given /\ ~flags.method.given

\* C16: a command line that gives only the URL, the concurrency and a
\* positive duration is accepted and runs as a duration-based test.
C16_DurationOnlyCommandLineAccepted ==
  (Loaded /\ OnlyUrlConcurrencyDuration) =>
    loaded.err = "" /\ IsDurationBased(loaded.cfg)

\* C17: in duration mode no signal is put on the queue once the duration
\* timer has fired, and none once the context is cancelled.
C17_NoEmissionAfterDeadline ==
  [][(IsDurationBased(cfg) /\ (timerFired \/ ctxDone)) =>
       emitted' = emitted]_vars

\* Run has returned from a duration-based test that was never stopped.
DurationRunDone == runPc = "done" /\ IsDurationBased(cfg) /\ stopped = 0

C19_QueueClosedOnceAndDrained ==
  /\ [](chanClosed <=> distPc = "done")
  /\ [][chanClosed =>
          chanClosed' /\ distPc' = "done" /\ emitted' = emitted]_vars
  /\ [][\A w \in Workers :
          (wpc[w] # "exited" /\ wpc'[w] = "exited" /\ ~ctxDone) =>
            chanClosed /\ chanLen = 0]_vars
  /\ []((AllWorkersExited /\ ~ctxDone) =>
          chanLen = 0 /\ dequeued = emitted /\ TotalRequests = emitted)

\* A duration-based run that was never stopped has shut down: the queue is
\* closed and empty and every signal was processed.
C19_Witness ==
  /\ AllWorkersExited /\ ~ctxDone /\ stopped = 0
  /\ IsDurationBased(cfg) /\ cfg.Concurrency = MaxConcurrency
  /\ chanClosed /\ chanLen = 0
  /\ emitted >= 2 /\ TotalRequests = emitted

\* C20: the process exits non-zero exactly when TotalRequests > 0 and more
\* than 10% of the requests failed; zero requests and a failure rate of
\* exactly 10% pass, 50% failures fail.
C20_FailsAboveTenPercent ==
  exitCode # NotExited =>
    /\ (exitCode = 1) <=>
          /\ report.TotalRequests > 0
          /\ report.FailedRequests * 100 > 10 * report.TotalRequests
    /\ (report.TotalRequests = 0 => exitCode = 0)
    /\ (report.FailedRequests * 10 = report.TotalRequests => exitCode = 0)
    /\ (report.TotalRequests > 0
          /\ report.FailedRequests * 2 = report.TotalRequests => exitCode = 1)

\* One failure in ten requests: exactly 10%, the process exits with 0.
C20_Witness ==
  /\ exitCode = 0
  /\ report.TotalRequests = 10 /\ report.FailedRequests = 1


\* C21: GetSuccessRate() is 100 x SuccessfulRequests / TotalRequests and 0
\* when TotalRequests = 0; it lies in [0, 100] and is 100 exactly when at
\* least one outcome was recorded and every recorded outcome succeeded.
C21_SuccessRateIsPercentage ==
  LET rate == GetSuccessRate(SuccessfulRequests, TotalRequests)
  IN /\ rate.den > 0
     /\ TotalRequests = 0 => rate.num = 0
     /\ TotalRequests > 0 =>
          rate.num * TotalRequests = 100 * returned.succ * rate.den
     /\ 0 <= rate.num /\ rate.num <= 100 * rate.den
     /\ (rate.num = 100 * rate.den) <=> (returned.n >= 1 /\ returned.fail = 0)

\* Two successes and one failure after a finished run: a rate of 66.67%.
C21_Witness ==
  /\ runPc = "done"
  /\ returned.succ = 2 /\ returned.fail = 1
  /\ GetSuccessRate(SuccessfulRequests, TotalRequests).num * 3 = 200
       * GetSuccessRate(SuccessfulRequests, TotalRequests).den


\* The successful outcomes retained in the detail buffer.
RetainedSuccesses ==
  {i \in 1..Len(DetailedResults) : DetailedResults[i].Success}

RetainedDurations == {DetailedResults[i].Duration : i \in RetainedSuccesses}

\* C22: after finalization, whenever the buffer retains a successful outcome,
\* P50 <= P90 <= P99 and the three lie between the smallest and the largest
\* retained successful duration.
C22_PercentilesOrderedWithinRange ==
  calculated /\ RetainedSuccesses # {} =>
    /\ P50ResponseTime <= P90ResponseTime
    /\ P90ResponseTime <= P99ResponseTime
    /\ \E d \in RetainedDurations : d <= P50ResponseTime
    /\ \E d \in RetainedDurations : P99ResponseTime <= d

\* Two retained successes of different durations: three distinct percentiles.
C22_Witness ==
  /\ calculated
  /\ Cardinality(RetainedDurations) >= 2
  /\ P50ResponseTime < P90ResponseTime
  /\ P90ResponseTime < P99ResponseTime

\* C23: the percentile snapshot is a function of the durations of the
\* successful outcomes in the buffer at finalize time alone (failed outcomes
\* in the buffer and outcomes already overwritten have no part in it), and
\* it stays 0 when the buffer holds no successful outcome.
C23_PercentilesFromRetainedSuccesses ==
  calculated =>
    LET kept == SelectSeq(DetailedResults, LAMBDA r : r.Success)
        sorted == SortAsc([i \in 1..Len(kept) |-> kept[i].Duration])
    IN <<P50ResponseTime, P90ResponseTime, P99ResponseTime>> =
         IF Len(kept) = 0 THEN <<0, 0, 0>>
         ELSE <<calculatePercentile(sorted, 50),
                calculatePercentile(sorted, 90),
                calculatePercentile(sorted, 99)>>

\* A success was overwritten, the buffer holds a failure and one success:
\* the percentiles are that success's duration.
C23_Witness ==
  /\ calculated
  /\ returned.n > Len(DetailedResults)
  /\ returned.succ >= 2
  /\ Cardinality(RetainedSuccesses) = 1
  /\ \E i \in 1..Len(DetailedResults) : ~DetailedResults[i].Success
  /\ \A i \in RetainedSuccesses :
        /\ P50ResponseTime = DetailedResults[i].Duration
        /\ P99ResponseTime = DetailedResults[i].Duration

\* The rule that applies to a transport answer, and what it asks of the
\* RequestResult.
Classified(o, r) ==
  /\ o.err # "" =>
        ~r.Success /\ r.Error = o.err
  /\ o.err = "" /\ o.status >= 400 =>
        ~r.Success /\ r.Error = HTTPError(o.status)
          /\ r.StatusCode = o.status
  /\ o.err = "" /\ o.status < 400 =>
        r.Success /\ r.Error = "" /\ r.StatusCode = o.status
          /\ r.ResponseSize = o.size

\* The results in the detail buffer that were not there before the step.
NewEntries ==
  {i \in 1..Len(DetailedResults') : DetailedResults'[i].seq > returned.n}

\* C24: a request is classified by exactly one rule (transport error:
\* failure with the error's text; status >= 400: failure with a text made
\* from the status; any other response: success with status code and
\* response size), and the worker's step that classifies it makes exactly
\* one AddResult call.
C24_ClassifiedByOneRuleRecordedOnce ==
  /\ [](\A o \in NaturalOutcomes \cup {CanceledOutcome} :
          Classified(o, recordResult(o)))
  /\ [][\A w \in Workers :
          wpc[w] = "inflight" /\ wpc'[w] = "select" =>
            /\ returned'.n = returned.n + 1
            /\ TotalRequests' = TotalRequests + 1
            /\ SuccessfulRequests' + FailedRequests'
                 = SuccessfulRequests + FailedRequests + 1
            /\ Cardinality(NewEntries) = 1
            /\ \A i \in NewEntries :
                 DetailedResults'[i].Success
                   <=> SuccessfulRequests' = SuccessfulRequests + 1]_vars

\* A finished run that recorded a success, a 500 response and a timeout.
C24_Witness ==
  /\ runPc = "done"
  /\ returned.succ = 1
  /\ errorCounts[HTTPError(StatusServerError)] = 1
  /\ errorCounts[TimeoutError] = 1

\* C25: the status-code table counts every outcome that carries a response
\* under its status code, 500 included, and when every request received a
\* response its counts add up to TotalRequests.
C25_StatusCodesCountEveryResponse ==
  Quiescent =>
    /\ statusCodes[StatusOK] = returned.succ
    /\ statusCodes[StatusServerError] = errorCounts[HTTPError(StatusServerError)]
    /\ (errorCounts[TimeoutError] = 0 /\ errorCounts[CtxCanceled] = 0
          => statusCodes[StatusOK] + statusCodes[StatusServerError]
               = TotalRequests)

\* C26: minimum and maximum latency are those of the successful outcomes
\* recorded so far, whatever the durations: a failed outcome leaves them
\* alone, a success moves them to its duration when it is the first one or
\* beyond the current extreme, and GetMinResponseTime reports 0 until the
\* first success and the minimum afterwards.
C26_ExtremesOverSuccesses ==
  /\ [](returned.succ = 0 =>
          /\ MinResponseTime = Hour
          /\ GetMinResponseTime(MinResponseTime) = 0
          /\ GetMaxResponseTime(MaxResponseTime) = 0)
  /\ [][returned'.n = returned.n + 1 =>
          LET d == returned'.time - returned.time
          IN IF returned'.succ = returned.succ
               THEN UNCHANGED extremeVars
               ELSE /\ MinResponseTime' =
                         IF returned.succ = 0 \/ d < MinResponseTime
                           THEN d ELSE MinResponseTime
                    /\ MaxResponseTime' =
                         IF returned.succ = 0 \/ d > MaxResponseTime
                           THEN d ELSE MaxResponseTime
                    /\ GetMinResponseTime(MinResponseTime')
                         = MinResponseTime']_vars


\* C27: with K >= 1 data rows GetRow is cyclic: GetRow(i) is row i mod K and
\* GetRow(i) = GetRow(i + K) for every i >= 0, GetRow(5) on 3 rows is the
\* third row, RowCount() is K, and each request of a worker is built from
\* the row GetRow gives for its requestID.
C27_GetRowCyclic ==
  /\ RowCount(csvRows) = csvFile.records - 1
  /\ \A i \in 0..(MaxRequests + MaxRows) :
       /\ GetRow(i, csvRows) = i % csvRows
       /\ GetRow(i + csvRows, csvRows) = GetRow(i, csvRows)
  /\ GetRow(5, 3) = 2
  /\ \A w \in Workers :
       wpc[w] = "inflight" => wres[w].row = (requestID[w] - 1) % csvRows

\* A worker's request past the last row is built from the first row again.
C27_Witness ==
  \E w \in Workers :
    /\ wpc[w] = "inflight"
    /\ requestID[w] = csvRows + 1
    /\ wres[w].row = 0

\* The parameter file is missing, unreadable or empty.
BadCSVFile ==
  \/ csvFile.state \in {"missing", "unreadable"}
  \/ csvFile.state = "readable" /\ csvFile.records = 0

\* C28: with a missing, unreadable or empty parameter file NewStressEngine
\* returns an error; when it returns an error no worker and no distributor
\* has been started and no request sent, and the process exits; the error
\* never arises once Run has begun.
C28_ConstructionFailsBeforeRun ==
  /\ [](engineErr # Pending /\ BadCSVFile => engineErr # NoError)
  /\ [](engineErr \notin {NoError, Pending} =>
          /\ runPc = "idle"
          /\ distPc = "none"
          /\ \A w \in Workers : wpc[w] = "none"
          /\ emitted = 0 /\ dequeued = 0 /\ TotalRequests = 0
          /\ exitCode = 1)
  /\ [][runPc # "idle" => engineErr' = engineErr]_vars

\* An empty parameter file: construction has failed.
C28_Witness ==
  /\ csvFile = [state |-> "readable", records |-> 0]
  /\ engineErr = "failed to create CSV parser"
  /\ exitCode = 1

\* C29: the error text of a recorded outcome has at most 200 characters,
\* for a transport error and for an HTTP-status error, whatever the length
\* of the error message, the status line or the response body.
C29_ErrorTextAtMostLimit ==
  recorded # NotRecorded => recorded.ErrorLen <= ErrorLimit

\* Every placeholder of a key of the row replaced by the row's value, all
\* other text kept.
RECURSIVE Substituted(_, _)
Substituted(text, row) ==
  IF text = <<>> THEN <<>>
  ELSE (IF \E k \in Keys : Head(text) = Placeholder(k)
          THEN row[CHOOSE k \in Keys : Head(text) = Placeholder(k)]
          ELSE <<Head(text)>>)
       \o Substituted(Tail(text), row)

Expected(template, data) ==
  IF data.present THEN Substituted(template, data.row) ELSE template

\* C30: template substitution replaces every {{key}} by the row's value for
\* each key of the row and leaves all other text as it is, returns the
\* template unchanged for an absent row, and is applied in this way to the
\* URL, to each header value (the name is kept) and to the body.
C30_SubstitutesRowValues ==
  processed # NotProcessed =>
    /\ processed.url = Expected(processed.template, processed.data)
    /\ processed.headers.name = "X-Name"
    /\ processed.headers.value = Expected(processed.template, processed.data)
    /\ processed.body = Expected(processed.template, processed.data)


\* C31: in duration mode the distributor's push blocks: while the queue is
\* full the distributor stays where it is until a slot is free, and leaves
\* its place in the loop only by returning (deadline or cancellation); it
\* does not sleep and move on to the next push.
C31_DurationPushBlocks ==
  [][IsDurationBased(cfg) /\ distPc = "dur_inner"
       /\ chanLen >= QueueCap(cfg)
       /\ <<distPc, distI>>' # <<distPc, distI>>
     => distPc' = "done"]_vars


\* C32: the queue never holds more than 2 x concurrency signals, exactly
\* `concurrency` workers are started and so at most that many requests are
\* in flight, and in count mode a full queue blocks the distributor: no
\* signal is emitted, dropped or kept elsewhere until a slot is free.
C32_QueueAndInFlightBounded ==
  /\ [](0 <= chanLen /\ chanLen <= 2 * cfg.Concurrency)
  /\ [](Cardinality(InFlight) <= cfg.Concurrency)
  /\ [](runPc # "idle" =>
          Cardinality({w \in DOMAIN wpc : wpc[w] # "none"}) = cfg.Concurrency)
  /\ [](emitted = chanLen + dequeued)
  /\ [][CountMode /\ distPc = "count_send" /\ chanLen = 2 * cfg.Concurrency
        => /\ emitted' = emitted
           /\ \/ <<distPc, distI, remaining>>' = <<distPc, distI, remaining>>
              \/ ctxDone /\ distPc' = "done"]_vars

\* Count mode: the queue is full and the distributor, with signals left to
\* send, waits at its send.
C32_Witness ==
  /\ CountMode
  /\ chanLen = 2 * cfg.Concurrency
  /\ distPc = "count_send"
  /\ remaining > 0


SortedSamples ==
  {smp \in UNION {[1..n -> Durations] : n \in 1..MaxSample} :
     \A i \in 1..Len(smp) - 1 : smp[i] <= smp[i + 1]}

\* value is the interpolation at rank = pct/100 x (n-1) of the ascending
\* sample smp (0-based ranks lo and hi), cut to a whole unit of time.
Interpolates(smp, pct, value) ==
  LET n == Len(smp)
      rank == pct * (n - 1)
      lo == rank \div 100
      hi == IF lo + 1 < n - 1 THEN lo + 1 ELSE n - 1
      exact == 100 * smp[lo + 1] + (rank % 100) * (smp[hi + 1] - smp[lo + 1])
  IN /\ 0 <= lo /\ lo <= n - 1
     /\ 0 <= hi /\ hi <= n - 1
     /\ 100 * value <= exact /\ exact < 100 * (value + 1)
     /\ n = 1 => value = smp[1]

\* C34: for an ascending sample of n >= 1 values and p in {0.50, 0.90, 0.99}
\* calculatePercentile returns the linear interpolation at rank p x (n-1)
\* between sorted[lo] and sorted[hi], lo = floor(rank), hi = min(lo+1, n-1),
\* the single value for n = 1, with all indices inside 0..n-1; so are the
\* percentiles CalculateMetrics stores.
C34_LinearInterpolationAtRank ==
  /\ \A smp \in SortedSamples : \A pct \in {50, 90, 99} :
       Interpolates(smp, pct, calculatePercentile(smp, pct))
  /\ calculated /\ RetainedSuccesses # {} =>
       LET kept == SelectSeq(DetailedResults, LAMBDA r : r.Success)
           smp == SortAsc([i \in 1..Len(kept) |-> kept[i].Duration])
       IN /\ Interpolates(smp, 50, P50ResponseTime)
          /\ Interpolates(smp, 90, P90ResponseTime)
          /\ Interpolates(smp, 99, P99ResponseTime)

\* Durations 1 and 3 retained: P50 is 2, P90 is 2.8 and P99 2.98, both
\* stored as 2.
C34_Witness ==
  /\ calculated
  /\ RetainedDurations = {1, 3}
  /\ Len(DetailedResults) = 2
  /\ P50ResponseTime = 2 /\ P90ResponseTime = 2 /\ P99ResponseTime = 2


\* C35: at every state, the middle of concurrent AddResult calls included
\* (what the progress monitor can read), TotalRequests is ahead of
\* SuccessfulRequests + FailedRequests by at least 0 and at most the number
\* of AddResult calls in progress, and none of the three counters decreases.
C35_CountersConsistentMidCall ==
  /\ [](LET settled == SuccessfulRequests + FailedRequests
        IN /\ settled <= TotalRequests
           /\ TotalRequests - settled <= Cardinality(InAddResult))
  /\ [][/\ TotalRequests' >= TotalRequests
        /\ SuccessfulRequests' >= SuccessfulRequests
        /\ FailedRequests' >= FailedRequests]_vars

\* Two calls in progress, neither has counted its success or failure yet.
C35_Witness ==
  /\ Cardinality(InAddResult) = 2
  /\ TotalRequests = SuccessfulRequests + FailedRequests + 2


\* C36: in count mode, whenever Stop is called, the signals emitted and the
\* outcomes recorded never exceed the configured TotalRequests N, and a
\* cancelled run returns with TotalRequests <= N.
C36_CountModeNeverExceedsN ==
  CountMode =>
    /\ emitted <= cfg.TotalRequests
    /\ dequeued <= cfg.TotalRequests
    /\ TotalRequests <= cfg.TotalRequests
    /\ returned.n <= cfg.TotalRequests
    /\ (runPc = "done" /\ ctxDone =>
          FailedRequests + SuccessfulRequests <= cfg.TotalRequests)

\* A run of N > 1 requests stopped on the way: it returned with fewer than
\* N outcomes, one of them at least.
C36_Witness ==
  /\ CountMode /\ ctxDone /\ runPc = "done"
  /\ 0 < TotalRequests /\ TotalRequests < cfg.TotalRequests
  /\ emitted < cfg.TotalRequests


\* C37: for every m >= 0, after SetMaxResults(m) the buffer holds at most m
\* outcomes and every AddResult call that follows completes without a
\* fault (no index out of range, no division by zero), the buffer staying
\* within m.
C37_AddResultSafeAfterSetMaxResults ==
  /\ panicked = NoPanic
  /\ Len(DetailedResults) <= maxResults

\* Arrival numbers of the outcomes a buffer holds.
SeqSet(buf) == {buf[i].seq : i \in 1..Len(buf)}

\* The oldest arrival among S.
Oldest(S) == CHOOSE x \in S : \A y \in S : x <= y

\* C38: after SetMaxResults(m), m >= 1, smaller or larger than before,
\* before or after the buffer wrapped, and any number of AddResult calls,
\* the buffer holds the most recently arrived outcomes, as many as it
\* holds, and each overwrite replaces the oldest outcome retained.
C38_WindowSurvivesCapacityChange ==
  /\ [](maxResults >= 1 /\ panicked = NoPanic =>
         SeqSet(DetailedResults) =
           (returned.n - Len(DetailedResults) + 1)..returned.n)
  /\ [][returned.n' = returned.n + 1 /\ maxResults >= 1
           /\ Len(DetailedResults) = maxResults =>
         SeqSet(DetailedResults') =
           (SeqSet(DetailedResults) \ {Oldest(SeqSet(DetailedResults))})
             \cup {returned.n + 1}]_vars


\* C39: when Run returns and Stop (hence Cleanup) has not been called, every
\* concurrent task Run started has terminated: all workers, the
\* distributor and, in verbose mode, the progress monitor.
C39_RunReturnsWithAllTasksTerminated ==
  runPc = "done" /\ stopped = 0 =>
    /\ \A w \in Workers : wpc[w] = "exited"
    /\ distPc = "done"
    /\ monPc # "running"


\* C40: template substitution is deterministic: for one template and one
\* row, Process returns the same text whatever the order in which the
\* row's keys are visited (the URL, the header value and the body are the
\* same template processed with the same row, each under its own order).
C40_ProcessIndependentOfKeyOrder ==
  processed # NotProcessed =>
    /\ processed.url = processed.body
    /\ processed.headers.value = processed.body

====
